---------------------------- MODULE Spec2Model ----------------------------
(***************************************************************************)
(* rss-pipe: the flow runner and builder (src/src/flow/mod.rs), the HTTP   *)
(* handlers that drive them (src/src/route/flow.rs, route/websub.rs,       *)
(* route/api/mod.rs), the Retrieve node (src/src/flow/retrieve.rs) and the *)
(* Cache node (server/src/pipeline), as state machines.                    *)
(*                                                                         *)
(* The specifications share the variables:                                 *)
(*   Spec          request tasks GET /flow/:name and POST /websub/:uuid    *)
(*                 over two built flows, with the registry lock, the       *)
(*                 per-flow nodes lock and the IO slots (SpecPush: pushes  *)
(*                 one after another, no node failing);                    *)
(*   SpecVerify    request tasks GET /websub/:uuid (hub verification) over *)
(*                 the websub table;                                       *)
(*   SpecRetrieve  one execution of Retrieve::run, with the buffered(n)    *)
(*                 stream of per-entry fetches (SpecRetrieveLive: with     *)
(*                 weak fairness of its steps);                            *)
(*   SpecCache     callers of run() on one Cache node, with the clock;     *)
(*   SpecApi       request tasks GET, PUT and DELETE /api/flow/:name over  *)
(*                 the flows table and the registry (SpecPut: PUT alone,   *)
(*                 SpecCrud: PUT and DELETE);                              *)
(*   SpecBuild     FlowBuilder::simple on one node list.                   *)
(* The relational store is taken to answer every query (no I/O failure).   *)
(***************************************************************************)
EXTENDS Integers, Sequences, FiniteSets, TLC

VARIABLES
    \* ---- the store and the build
    websub,      \* table websub: uuid -> row or NoRow
    now,         \* the clock read by Utc::now()
    sha1,        \* whether the build enables feature "sha1"
    \* ---- AppStateInner and the flows
    flows,       \* the registry: name -> flow handle
    flowsLock,   \* holder of the registry Mutex (a task or NoTask)
    nodesLock,   \* per flow, holder of Flow.nodes Mutex
    io,          \* per flow, slot id -> IO slot
    \* ---- request tasks
    pc,          \* where each task's handler is suspended
    req,         \* the request a task is serving
    row,         \* the row the handler fetched
    resp,        \* the response it gave
    fl,          \* the flow handle the handler cloned out of the registry
    idx,         \* Flow::run's position in nodes.iter()
    taken,       \* the value the running node took from its input slot
    invoked,     \* history: nodes whose run() this execution invoked, in order
    wrote,       \* history: slots this request accepted a value into
    failedAt,    \* history: position of the node whose run() failed (0: none)
    \* ---- one Retrieve::run
    rpc,         \* position of Retrieve::run
    rIn,         \* Retrieve.input
    rOut,        \* Retrieve.output
    rOut0,       \* history: Retrieve.output when run() was entered
    atom,        \* the feed taken from the input slot
    pulled,      \* entries the stream has handed to buffered()
    streamDone,  \* the fused stream has returned None
    inProgress,  \* FuturesOrdered.in_progress_queue: indices still fetching
    queued,      \* FuturesOrdered.queued_outputs: index -> result
    items,       \* the collected results, in the order the stream yielded them
    rResult,     \* what run() returned
    outOfOrder,  \* history: some fetch completed before an earlier one
    \* ---- one Cache node and its callers
    cache,       \* the Cache node: ttl, last_value, inserted_at
    cTtl,        \* the ttl the node was built with
    cLock,       \* holder of the cache's lock (a task or NoTask)
    cRun,        \* per caller, where its run() is and what it saw
    cLog,        \* history: the completed run()s, in the order they returned
    \* ---- the flows table and the /api/flow handlers
    flowsTbl,    \* table flows: name -> content or NoContent
    existed,     \* history: a row of the name was stored when the PUT arrived
    \* ---- one FlowBuilder
    bNodes,      \* FlowBuilder.nodes
    bOutput,     \* the DataKind given to simple()
    built        \* the Flow simple() returned, or NoFlow

storeVars == <<websub, now, sha1>>
flowVars  == <<flows, flowsLock, nodesLock, io>>
taskVars  == <<pc, req, row, resp, fl, idx, taken, invoked, wrote,
               failedAt>>
retrVars  == <<rpc, rIn, rOut, rOut0, atom, pulled, streamDone, inProgress,
               queued, items, rResult, outOfOrder>>
cacheVars == <<cache, cTtl, cLock, cRun, cLog>>
apiVars   == <<flowsTbl, existed>>
buildVars == <<bNodes, bOutput, built>>
extVars   == <<cacheVars, apiVars, buildVars>>
vars      == <<storeVars, flowVars, taskVars, retrVars, extVars>>

-----------------------------------------------------------------------------
(* Bounds of the model *)

MaxTime == 2
MaxLease == 2
MaxEntries == 7

\* Two request tasks run concurrently on the executor.
Tasks == {1, 2}
NoTask == 0

-----------------------------------------------------------------------------
(* Data and DataKind *)

DataKinds == {"Feed", "WebSub"}
NoData == [kind |-> "None", v |-> 0]
MkData(k, v) == [kind |-> k, v |-> v]

Bodies == {0, 1}

-----------------------------------------------------------------------------
(* The IO slot: empty / dirty / clean, typed by a DataKind *)

EmptyIO(k) == [kind |-> k, state |-> "empty", value |-> NoData]

IOAcceptOk(s, d) == s.state = "empty" /\ d.kind = s.kind
IOAccept(s, d) == [s EXCEPT !.state = "dirty", !.value = d]
IOGetValue(s) == IF s.state = "empty" THEN NoData ELSE s.value
IOGet(s) == IF s.state = "dirty" THEN [s EXCEPT !.state = "clean"] ELSE s
IOClear(s) == [s EXCEPT !.state = "empty", !.value = NoData]
IOIsDirty(s) == s.state = "dirty"

-----------------------------------------------------------------------------
(* Nodes and FlowBuilder::simple *)

FeedNode     == [name |-> "Feed", input_types |-> <<>>,
                 output_types |-> <<"Feed">>]
WebSubNode   == [name |-> "WebSub", input_types |-> <<"WebSub">>,
                 output_types |-> <<"Feed">>]
RetrieveNode == [name |-> "Retrieve", input_types |-> <<"Feed">>,
                 output_types |-> <<"Feed">>]

NoIO == -1
TerminalSlot == 0
\* Arc::default() of node k in a list of n nodes: its own input and output.
DefaultIn(k) == k
DefaultOut(n, k) == n + k
HasInput(node) == Len(node.input_types) > 0

\* The loop of FlowBuilder::simple over nodes.iter_mut().rev(): `carry` is the
\* local `io`; outs collects each node's output slot.
RECURSIVE SimpleLoop(_, _, _, _)
SimpleLoop(nodes, k, carry, outs) ==
    IF k = 0 THEN outs
    ELSE LET out   == IF carry # NoIO THEN carry ELSE outs[k]
             next  == IF HasInput(nodes[k]) THEN DefaultIn(k) ELSE NoIO
         IN  SimpleLoop(nodes, k - 1, next, [outs EXCEPT ![k] = out])

Simple(nodes, output) ==
    LET n == Len(nodes)
    IN  [nodes   |-> nodes,
         outSlot |-> SimpleLoop(nodes, n, TerminalSlot,
                                [k \in 1..n |-> DefaultOut(n, k)]),
         output  |-> TerminalSlot,
         outKind |-> output]

FlowIds == {"A", "B"}
FlowDef(f) ==
    IF f = "A" THEN Simple(<<FeedNode, RetrieveNode>>, "Feed")
               ELSE Simple(<<WebSubNode, RetrieveNode>>, "Feed")

NNodes(f) == Len(FlowDef(f).nodes)
SlotIds(f) == 0..(2 * NNodes(f))
NodeInputs(f, k) ==
    IF HasInput(FlowDef(f).nodes[k]) THEN <<DefaultIn(k)>> ELSE <<>>
NodeOutput(f, k) == FlowDef(f).outSlot[k]

SlotKind(f, s) ==
    LET n == NNodes(f)
    IN  IF s = TerminalSlot THEN FlowDef(f).outKind
        ELSE IF s <= n
             THEN IF HasInput(FlowDef(f).nodes[s])
                  THEN FlowDef(f).nodes[s].input_types[1]
                  ELSE "Feed"
        ELSE FlowDef(f).nodes[s - n].output_types[1]

\* Flow::inputs(): the input slots no producer is wired to.
FlowInputs(f) == NodeInputs(f, 1)

\* NodeTrait::is_dirty
NodeIsDirty(f, k) ==
    \/ \E i \in 1..Len(NodeInputs(f, k)) : IOIsDirty(io[f][NodeInputs(f, k)[i]])
    \/ /\ NodeInputs(f, k) = <<>>
       /\ io[f][NodeOutput(f, k)].state = "empty"


-----------------------------------------------------------------------------
(* The websub table, requests and responses *)

UUIDs == {"u1", "u2", "u3", "u4"}
Topics == {"T1", "T2"}
Challenges == {"c1", "c2"}

NoRow == [present |-> FALSE, flow |-> "", secret |-> 0, subscribed |-> FALSE,
          topic |-> "", lease_end |-> 0]
MkRow(flow, secret, subscribed) ==
    [present |-> TRUE, flow |-> flow, secret |-> secret,
     subscribed |-> subscribed, topic |-> "T1", lease_end |-> 0]

NoHeader == [present |-> FALSE, ascii |-> TRUE, text |-> <<>>]
Header(text) == [present |-> TRUE, ascii |-> TRUE, text |-> text]

NoReq == [kind |-> "none", name |-> "", uuid |-> "", header |-> NoHeader,
          body |-> 0, mode |-> "", topic |-> "", challenge |-> "", lease |-> 0]
NoResp == [status |-> 0, body |-> ""]
Resp(status, body) == [status |-> status, body |-> body]

\* What every handler's return does to the task: the response is recorded.
Respond(t, r) ==
    /\ pc' = [pc EXCEPT ![t] = "done"]
    /\ resp' = [resp EXCEPT ![t] = r]

\* The connection is closed and the task serves the next request.
Finish(t) ==
    /\ pc[t] = "done"
    /\ pc' = [pc EXCEPT ![t] = "idle"]
    /\ req' = [req EXCEPT ![t] = NoReq]
    /\ row' = [row EXCEPT ![t] = NoRow]
    /\ resp' = [resp EXCEPT ![t] = NoResp]
    /\ fl' = [fl EXCEPT ![t] = ""]
    /\ idx' = [idx EXCEPT ![t] = 0]
    /\ taken' = [taken EXCEPT ![t] = NoData]
    /\ invoked' = [invoked EXCEPT ![t] = <<>>]
    /\ wrote' = [wrote EXCEPT ![t] = {}]
    /\ failedAt' = [failedAt EXCEPT ![t] = 0]
    /\ UNCHANGED <<storeVars, flowVars, retrVars, extVars>>

-----------------------------------------------------------------------------
(* GET /websub/:uuid -- verify *)

VerifyUUIDs == {"u1", "u4"}

LeaseEnd_NoClock(n, lease_seconds) == lease_seconds

\* Utc::now() + lease_seconds
LeaseEnd(n, lease_seconds) == n + lease_seconds

\* UPDATE websub SET lease_end = ? WHERE uuid = ?
UpdateLeaseEnd(tbl, uuid, lease_end) ==
    IF tbl[uuid].present
    THEN [tbl EXCEPT ![uuid].lease_end = lease_end]
    ELSE tbl

\* DELETE FROM websub WHERE uuid = ?
DeleteRow(tbl, uuid) == [tbl EXCEPT ![uuid] = NoRow]

SubscribeVerified(subscribed, topic, my_topic) ==
    subscribed /\ topic = my_topic

UnsubscribeVerified_NoFlag(subscribed, topic, my_topic) ==
    topic = my_topic

UnsubscribeVerified(subscribed, topic, my_topic) ==
    ~subscribed /\ topic = my_topic

StartVerify(t) ==
    /\ pc[t] = "idle"
    /\ \E u \in VerifyUUIDs, m \in {"subscribe", "unsubscribe"},
          tp \in Topics, c \in Challenges, l \in 1..MaxLease :
          /\ m = "unsubscribe" => l = 1
          /\ req' = [req EXCEPT ![t] =
                 [NoReq EXCEPT !.kind = "verify", !.uuid = u, !.mode = m,
                               !.topic = tp, !.challenge = c,
                               !.lease = IF m = "subscribe" THEN l ELSE 0]]
    /\ pc' = [pc EXCEPT ![t] = "v_select"]
    /\ UNCHANGED <<row, resp, fl, idx, taken, invoked, wrote, failedAt>>
    /\ UNCHANGED <<storeVars, flowVars, retrVars, extVars>>

\* SELECT subscribed, topic FROM websub WHERE uuid = ?
VerifySelect(t) ==
    /\ pc[t] = "v_select"
    /\ IF websub[req[t].uuid].present
       THEN /\ row' = [row EXCEPT ![t] = websub[req[t].uuid]]
            /\ pc' = [pc EXCEPT ![t] = "v_apply"]
            /\ UNCHANGED resp
       ELSE /\ Respond(t, Resp(404, "Not found"))
            /\ UNCHANGED row
    /\ UNCHANGED <<req, fl, idx, taken, invoked, wrote, failedAt>>
    /\ UNCHANGED <<storeVars, flowVars, retrVars, extVars>>

\* The match on the Verification variant.
VerifyApply(t) ==
    /\ pc[t] = "v_apply"
    /\ LET r == req[t]
           subscribed == row[t].subscribed
           my_topic == row[t].topic
       IN  IF r.mode = "subscribe"
           THEN /\ websub' = UpdateLeaseEnd(websub, r.uuid,
                                            LeaseEnd(now, r.lease))
                /\ IF SubscribeVerified(subscribed, r.topic, my_topic)
                   THEN Respond(t, Resp(200, r.challenge))
                   ELSE Respond(t, Resp(400, "Bad request"))
           ELSE IF UnsubscribeVerified(subscribed, r.topic, my_topic)
                THEN /\ websub' = DeleteRow(websub, r.uuid)
                     /\ Respond(t, Resp(200, r.challenge))
                ELSE /\ websub' = websub
                     /\ Respond(t, Resp(400, "Bad request"))
    /\ UNCHANGED <<now, sha1>>
    /\ UNCHANGED <<req, row, fl, idx, taken, invoked, wrote, failedAt>>
    /\ UNCHANGED <<flowVars, retrVars, extVars>>

Tick ==
    /\ now < MaxTime
    /\ now' = now + 1
    /\ UNCHANGED <<websub, sha1, flowVars, taskVars, retrVars, extVars>>

-----------------------------------------------------------------------------
(* X-Hub-Signature: FromStr, verify, verify_hmac *)

\* A header value is a sequence of tokens: an algorithm name, "=", a pair of
\* hex digits ("00", "01") or a pair that is not hex ("zz").
HexTokens == {"00", "01"}
HexVal(tok) == IF tok = "00" THEN 0 ELSE 1

ParseErr == [ok |-> FALSE, method |-> <<>>, signature |-> <<>>]

\* str::split_once('='): the position of the first "=", 0 when there is none.
EqPos(text) ==
    IF \E i \in 1..Len(text) : text[i] = "="
    THEN CHOOSE i \in 1..Len(text) :
             text[i] = "=" /\ \A j \in 1..(i - 1) : text[j] # "="
    ELSE 0

\* hex::decode
HexDecodeOk(txt) == \A i \in 1..Len(txt) : txt[i] \in HexTokens
HexDecode(txt) == [i \in 1..Len(txt) |-> HexVal(txt[i])]

FromStr(text) ==
    LET p == EqPos(text)
        signature == SubSeq(text, p + 1, Len(text))
    IN  IF p = 0 THEN ParseErr
        ELSE IF ~HexDecodeOk(signature) THEN ParseErr
        ELSE [ok |-> TRUE, method |-> SubSeq(text, 1, p - 1),
              signature |-> HexDecode(signature)]

\* headers.get(X_HUB_SIGNATURE).and_then(to_str).and_then(from_str)
HeaderSignature(h) ==
    IF ~h.present \/ ~h.ascii THEN ParseErr ELSE FromStr(h.text)

\* The MAC of a message under a secret: one byte, per algorithm.
AlgSalt(alg) == IF alg \in {"sha1", "sha384"} THEN 0 ELSE 1
Hmac(alg, secret, message) == <<(AlgSalt(alg) + secret + message) % 2>>

\* mac::verify_hmac: Hmac::verify_slice. Hmac::new_from_slice takes a key of
\* any length, so the Err that receive would turn into 400 does not arise.
VerifyHmac(alg, signature, secret, message) ==
    signature = Hmac(alg, secret, message)

XHubVerify_FailOpen(sig, secret, message) ==
    IF sig.method \in {<<"sha256">>, <<"sha384">>, <<"sha512">>}
    THEN VerifyHmac(sig.method[1], sig.signature, secret, message)
    ELSE TRUE

\* XHubSignature::verify
XHubVerify(sig, secret, message) ==
    IF sig.method = <<"sha1">>
    THEN IF sha1
         THEN VerifyHmac("sha1", sig.signature, secret, message)
         ELSE FALSE
    ELSE IF sig.method \in {<<"sha256">>, <<"sha384">>, <<"sha512">>}
    THEN VerifyHmac(sig.method[1], sig.signature, secret, message)
    ELSE FALSE

\* The header values requests are drawn from: absent, not visible ASCII, no
\* "=", not hex, and one signature per algorithm (with the two bodies each is
\* the right MAC of one request and the wrong MAC of another).
HeaderChoices ==
    { NoHeader,
      [present |-> TRUE, ascii |-> FALSE, text |-> <<>>],
      Header(<<"sha256">>),
      Header(<<"sha256", "=", "zz">>),
      Header(<<"sha256", "=", "00">>),
      Header(<<"sha1", "=", "00">>),
      Header(<<"md5", "=", "00">>) }

-----------------------------------------------------------------------------
(* Flow::run, as called by a handler *)

Names == {"A", "B", "C"}

InRun(t) == pc[t] \in {"run_iter", "node_run"}

NodesLockFree_Always(f) == TRUE

\* self.nodes.lock().await can complete
NodesLockFree(f) == nodesLock[f] = NoTask

\* The handler's map_err / Ok after flow.run().await, with the guards that
\* go out of scope: the nodes guard, and in route::flow::run the registry
\* guard, a temporary of the `if let` scrutinee that lives to its end.
RunReturns(t, r) ==
    /\ nodesLock' = [nodesLock EXCEPT ![fl[t]] = NoTask]
    /\ flowsLock' = IF flowsLock = t THEN NoTask ELSE flowsLock
    /\ Respond(t, r)

RunFails(t, k) ==
    /\ failedAt' = [failedAt EXCEPT ![t] = k]
    /\ RunReturns(t, Resp(500, "error"))

\* let nodes = self.nodes.lock().await;
RunLock(t) ==
    /\ pc[t] = "run_lock"
    /\ NodesLockFree(fl[t])
    /\ nodesLock' = [nodesLock EXCEPT ![fl[t]] = t]
    /\ idx' = [idx EXCEPT ![t] = 1]
    /\ pc' = [pc EXCEPT ![t] = "run_iter"]
    /\ UNCHANGED <<req, row, resp, fl, taken, invoked, wrote, failedAt>>
    /\ UNCHANGED <<flows, flowsLock, io, storeVars, retrVars, extVars>>

\* One turn of `for node in nodes.iter()`, up to node.run()'s first await;
\* past the last node, Ok(self.output.get()).
RunIter(t) ==
    /\ pc[t] = "run_iter"
    /\ LET f == fl[t]
           k == idx[t]
       IN  IF k > NNodes(f)
           THEN /\ io' = [io EXCEPT ![f][TerminalSlot] = IOGet(@)]
                /\ RunReturns(t, Resp(200,
                       IF IOGetValue(io[f][TerminalSlot]) = NoData
                       THEN "none" ELSE "atom"))
                /\ UNCHANGED <<idx, taken, invoked, failedAt>>
           ELSE IF ~NodeIsDirty(f, k)
           THEN /\ idx' = [idx EXCEPT ![t] = k + 1]
                /\ UNCHANGED <<io, nodesLock, flowsLock, pc, resp, taken,
                               invoked, failedAt>>
           ELSE /\ invoked' = [invoked EXCEPT ![t] = Append(@, k)]
                /\ IF NodeInputs(f, k) = <<>>
                   THEN /\ pc' = [pc EXCEPT ![t] = "node_run"]
                        /\ UNCHANGED <<io, nodesLock, flowsLock, resp, taken,
                                       idx, failedAt>>
                   ELSE LET in == NodeInputs(f, k)[1]
                            d  == IOGetValue(io[f][in])
                        IN  /\ io' = [io EXCEPT ![f][in] = IOGet(@)]
                            /\ IF d.kind = FlowDef(f).nodes[k].input_types[1]
                               THEN /\ taken' = [taken EXCEPT ![t] = d]
                                    /\ pc' = [pc EXCEPT ![t] = "node_run"]
                                    /\ UNCHANGED <<nodesLock, flowsLock, resp,
                                                   idx, failedAt>>
                               ELSE /\ RunFails(t, k)
                                    /\ UNCHANGED <<idx, taken>>
    /\ UNCHANGED <<req, row, fl, wrote>>
    /\ UNCHANGED <<flows, storeVars, retrVars, extVars>>

\* What the node produces from what it took.
NodeOutputData(f, k, d) == MkData(FlowDef(f).nodes[k].output_types[1], d.v)

\* The runner's `for io in inputs.iter().filter(|i| i.is_dirty()) { io.clear() }`
ClearDirtyInputs(slots, f, k) ==
    [s \in DOMAIN slots |->
        IF /\ \E i \in 1..Len(NodeInputs(f, k)) : NodeInputs(f, k)[i] = s
           /\ IOIsDirty(slots[s])
        THEN IOClear(slots[s])
        ELSE slots[s]]

AfterNodeOk_SkipNext(t, k) ==
    /\ idx' = [idx EXCEPT ![t] = k + 2]
    /\ pc' = [pc EXCEPT ![t] = "run_iter"]
    /\ UNCHANGED <<nodesLock, flowsLock, resp, failedAt>>

\* After node.run().await? returned Ok: the runner goes on to the next node.
AfterNodeOk(t, k) ==
    /\ idx' = [idx EXCEPT ![t] = k + 1]
    /\ pc' = [pc EXCEPT ![t] = "run_iter"]
    /\ UNCHANGED <<nodesLock, flowsLock, resp, failedAt>>

\* node.run() completes: its output.accept(value) succeeds or rejects.
NodeOk(t) ==
    /\ pc[t] = "node_run"
    /\ LET f == fl[t]
           k == idx[t]
           out == NodeOutput(f, k)
           d == NodeOutputData(f, k, taken[t])
       IN  IF IOAcceptOk(io[f][out], d)
           THEN /\ io' = [io EXCEPT ![f] = ClearDirtyInputs(
                              [io[f] EXCEPT ![out] = IOAccept(@, d)], f, k)]
                /\ wrote' = [wrote EXCEPT ![t] = @ \cup {out}]
                /\ AfterNodeOk(t, k)
           ELSE /\ RunFails(t, k)
                /\ UNCHANGED <<io, wrote, idx>>
    /\ taken' = [taken EXCEPT ![t] = NoData]
    /\ UNCHANGED <<req, row, fl, invoked>>
    /\ UNCHANGED <<flows, storeVars, retrVars, extVars>>

AfterNodeErr_Continue(t, k) ==
    /\ failedAt' = [failedAt EXCEPT ![t] = k]
    /\ idx' = [idx EXCEPT ![t] = k + 1]
    /\ pc' = [pc EXCEPT ![t] = "run_iter"]
    /\ UNCHANGED <<nodesLock, flowsLock, resp>>

\* After node.run().await? returned Err: `?` returns it from Flow::run.
AfterNodeErr(t, k) ==
    /\ RunFails(t, k)
    /\ UNCHANGED idx

\* node.run() fails (a fetch or a parse error).
NodeErr(t) ==
    /\ pc[t] = "node_run"
    /\ AfterNodeErr(t, idx[t])
    /\ taken' = [taken EXCEPT ![t] = NoData]
    /\ UNCHANGED <<req, row, fl, invoked, wrote>>
    /\ UNCHANGED <<flows, io, storeVars, retrVars, extVars>>

-----------------------------------------------------------------------------
(* GET /flow/:name -- route::flow::run *)

StartGet(t) ==
    /\ pc[t] = "idle"
    /\ \E n \in Names :
          req' = [req EXCEPT ![t] = [NoReq EXCEPT !.kind = "get", !.name = n]]
    /\ pc' = [pc EXCEPT ![t] = "g_lookup"]
    /\ UNCHANGED <<row, resp, fl, idx, taken, invoked, wrote, failedAt>>
    /\ UNCHANGED <<storeVars, flowVars, retrVars, extVars>>

\* if let Some(flow) = state.flows.lock().await.get(&name).cloned() { ... }
\* The guard is not dropped before the block: the task goes on holding it.
GetLookup(t) ==
    /\ pc[t] = "g_lookup"
    /\ flowsLock = NoTask
    /\ IF req[t].name \in DOMAIN flows
       THEN /\ flowsLock' = t
            /\ fl' = [fl EXCEPT ![t] = flows[req[t].name]]
            /\ pc' = [pc EXCEPT ![t] = "run_lock"]
            /\ UNCHANGED resp
       ELSE /\ Respond(t, Resp(404, "Not found"))
            /\ UNCHANGED <<flowsLock, fl>>
    /\ UNCHANGED <<req, row, idx, taken, invoked, wrote, failedAt>>
    /\ UNCHANGED <<flows, nodesLock, io, storeVars, retrVars, extVars>>

-----------------------------------------------------------------------------
(* POST /websub/:uuid -- receive *)

StartReceive(t) ==
    /\ pc[t] = "idle"
    /\ \E u \in UUIDs, h \in HeaderChoices, b \in Bodies :
          req' = [req EXCEPT ![t] =
                     [NoReq EXCEPT !.kind = "receive", !.uuid = u,
                                   !.header = h, !.body = b]]
    /\ pc' = [pc EXCEPT ![t] = "r_select"]
    /\ UNCHANGED <<row, resp, fl, idx, taken, invoked, wrote, failedAt>>
    /\ UNCHANGED <<storeVars, flowVars, retrVars, extVars>>

\* SELECT flow, secret FROM websub WHERE uuid = ?, then the signature check.
ReceiveSelect(t) ==
    /\ pc[t] = "r_select"
    /\ LET r == websub[req[t].uuid]
           signature == HeaderSignature(req[t].header)
       IN  IF ~r.present
           THEN /\ Respond(t, Resp(200, "OK"))
                /\ UNCHANGED row
           ELSE IF ~signature.ok
           THEN /\ Respond(t, Resp(403, "403 Forbidden"))
                /\ UNCHANGED row
           ELSE IF ~XHubVerify(signature, r.secret, req[t].body)
           THEN /\ Respond(t, Resp(403, "Invalid signature"))
                /\ UNCHANGED row
           ELSE /\ row' = [row EXCEPT ![t] = r]
                /\ pc' = [pc EXCEPT ![t] = "r_lookup"]
                /\ UNCHANGED resp
    /\ UNCHANGED <<req, fl, idx, taken, invoked, wrote, failedAt>>
    /\ UNCHANGED <<storeVars, flowVars, retrVars, extVars>>

\* flow.inputs().iter().find(|i| matches!(i.kind(), DataKind::WebSub))
WebSubInput(f) ==
    LET ins == FlowInputs(f)
        hits == {i \in 1..Len(ins) : SlotKind(f, ins[i]) = "WebSub"}
    IN  IF hits = {} THEN NoIO
        ELSE ins[CHOOSE i \in hits : \A j \in hits : i <= j]

\* let Some(flow) = state.flows.lock().await.get(flow_name).cloned() else ..;
\* then input.accept(body). The registry guard is dropped with the statement.
ReceiveLookup(t) ==
    /\ pc[t] = "r_lookup"
    /\ flowsLock = NoTask
    /\ IF row[t].flow \notin DOMAIN flows
       THEN /\ Respond(t, Resp(404, "Invalid subscription"))
            /\ UNCHANGED <<fl, io, wrote>>
       ELSE LET f == flows[row[t].flow]
                in == WebSubInput(f)
                d == MkData("WebSub", req[t].body)
            IN  IF in = NoIO
                THEN /\ Respond(t, Resp(200, "OK"))
                     /\ UNCHANGED <<fl, io, wrote>>
                ELSE IF ~IOAcceptOk(io[f][in], d)
                THEN /\ Respond(t, Resp(400, "rejected"))
                     /\ UNCHANGED <<fl, io, wrote>>
                ELSE /\ io' = [io EXCEPT ![f][in] = IOAccept(@, d)]
                     /\ wrote' = [wrote EXCEPT ![t] = @ \cup {in}]
                     /\ fl' = [fl EXCEPT ![t] = f]
                     /\ pc' = [pc EXCEPT ![t] = "run_lock"]
                     /\ UNCHANGED resp
    /\ UNCHANGED <<req, row, idx, taken, invoked, failedAt>>
    /\ UNCHANGED <<flows, flowsLock, nodesLock, storeVars, retrVars, extVars>>

-----------------------------------------------------------------------------
(* The Cache node (pipeline): ttl, last_value, inserted_at, single-flight *)

MaxTtl == 2
MaxRuns == 3

NoValue == 0
\* What the wrapped child's run() can return: the upstream feed changes.
ChildValues == {1, 2}

CacheNew_ZeroTtl(ttl) ==
    [ttl |-> 0, last_value |-> NoValue, inserted_at |-> 0]

\* Node::cache(self, ttl): Cache::new(self, ttl), nothing stored yet.
CacheNew(ttl) ==
    [ttl |-> ttl, last_value |-> NoValue, inserted_at |-> 0]

\* last_value is present and now - inserted_at < ttl
Fresh(c, n) == c.last_value # NoValue /\ n - c.inserted_at < c.ttl

\* store it as last_value with inserted_at = now
CacheStore(c, v, n) == [c EXCEPT !.last_value = v, !.inserted_at = n]

CacheAfterChildErr_Invalidate(c) == [c EXCEPT !.last_value = NoValue]

\* A failed child run() updates neither last_value nor inserted_at.
CacheAfterChildErr(c) == c

CacheLockFree_Always == TRUE

\* At most one run() of the cache proceeds at a time.
CacheLockFree == cLock = NoTask

NoRet == [ok |-> FALSE, value |-> NoValue]
IdleRun == [pc |-> "idle", checked |-> 0, invoked |-> FALSE, waitIdx |-> 0,
            before |-> CacheNew(0)]

\* The record of a completed run(): when it checked freshness, whether it
\* invoked the child, which logged run it waited for (0: none), what it
\* returned and when it stored (-1: it stored nothing).
Logged(r, ret, stored) ==
    [checked |-> r.checked, invoked |-> r.invoked, waitIdx |-> r.waitIdx,
     ok |-> ret.ok, value |-> ret.value, stored |-> stored]

RunsStarted ==
    Len(cLog) + Cardinality({t \in Tasks : cRun[t].pc \in {"wait", "child"}})

\* A caller invokes run() on the cache node. While another caller's child
\* invocation is in progress, that one's is the next run to return.
CacheCall(t) ==
    /\ cRun[t].pc = "idle"
    /\ RunsStarted < MaxRuns
    /\ cRun' = [cRun EXCEPT ![t] =
           [IdleRun EXCEPT !.pc = "wait",
                           !.waitIdx = IF cLock # NoTask
                                       THEN Len(cLog) + 1 ELSE 0]]
    /\ UNCHANGED <<cache, cTtl, cLock, cLog>>
    /\ UNCHANGED <<storeVars, flowVars, taskVars, retrVars, apiVars,
                   buildVars>>

\* The caller's turn: a fresh value is returned at once; otherwise the child
\* is invoked, with the cache held until it returns. A caller that has its
\* result may call again.
CacheEnter(t) ==
    /\ cRun[t].pc = "wait"
    /\ CacheLockFree
    /\ IF Fresh(cache, now)
       THEN LET r == [cRun[t] EXCEPT !.checked = now]
                ret == [ok |-> TRUE, value |-> cache.last_value]
            IN  /\ cRun' = [cRun EXCEPT ![t] = IdleRun]
                /\ cLog' = Append(cLog, Logged(r, ret, -1))
                /\ UNCHANGED cLock
       ELSE /\ cRun' = [cRun EXCEPT ![t] =
                   [@ EXCEPT !.pc = "child", !.checked = now,
                             !.invoked = TRUE, !.before = cache]]
            /\ cLock' = t
            /\ UNCHANGED cLog
    /\ UNCHANGED <<cache, cTtl>>
    /\ UNCHANGED <<storeVars, flowVars, taskVars, retrVars, apiVars,
                   buildVars>>

\* The child's run() returns a value: it is stored and returned.
ChildOk(t) ==
    /\ cRun[t].pc = "child"
    /\ \E v \in ChildValues :
          /\ cache' = CacheStore(cache, v, now)
          /\ cLog' = Append(cLog, Logged(cRun[t],
                                         [ok |-> TRUE, value |-> v], now))
    /\ cRun' = [cRun EXCEPT ![t] = IdleRun]
    /\ cLock' = IF cLock = t THEN NoTask ELSE cLock
    /\ UNCHANGED cTtl
    /\ UNCHANGED <<storeVars, flowVars, taskVars, retrVars, apiVars,
                   buildVars>>

\* The child's run() fails: the error is returned.
ChildErr(t) ==
    /\ cRun[t].pc = "child"
    /\ cRun' = [cRun EXCEPT ![t] = IdleRun]
    /\ cLog' = Append(cLog, Logged(cRun[t], NoRet, -1))
    /\ cache' = CacheAfterChildErr(cache)
    /\ cLock' = IF cLock = t THEN NoTask ELSE cLock
    /\ UNCHANGED cTtl
    /\ UNCHANGED <<storeVars, flowVars, taskVars, retrVars, apiVars,
                   buildVars>>

InitCacheIdle ==
    /\ cache = CacheNew(0)
    /\ cTtl = 0
    /\ cLock = NoTask
    /\ cRun = [t \in Tasks |-> IdleRun]
    /\ cLog = <<>>

-----------------------------------------------------------------------------
(* /api/flow/:name -- get_flow, update_flow, delete_flow *)

ApiNames == {"x", "y"}

\* The node trees PUT bodies carry: 0 a Feed, 1 a Cache over a Feed, 2 a Wasm
\* node whose module does not compile.
Trees == {0, 1, 2}

\* serde_json::to_string(&flow)
ToJson(tree) == <<"json", tree>>

\* flow.try_into_async(): Err only from Wasm::new(wat).await?
BuildOk(tree) == tree # 2
BuildFlow(tree) == <<"flow", tree>>

NoContent == <<>>
Stored(tbl, name) == tbl[name] # NoContent

\* UPDATE flows SET content = ? WHERE name = ?
UpdateContent(tbl, name, json) ==
    IF Stored(tbl, name) THEN [tbl EXCEPT ![name] = json] ELSE tbl

\* INSERT INTO flows (uuid, name, content): name is UNIQUE.
InsertOk(tbl, name) == ~Stored(tbl, name)
InsertFlow(tbl, name, json) == [tbl EXCEPT ![name] = json]

\* DELETE FROM flows WHERE name = ?
DeleteFlowRow(tbl, name) == [tbl EXCEPT ![name] = NoContent]

\* HashMap::insert and HashMap::remove on the registry
RegistryInsert(reg, name, flow) ==
    [n \in DOMAIN reg \cup {name} |-> IF n = name THEN flow ELSE reg[n]]
RegistryRemove(reg, name) == [n \in DOMAIN reg \ {name} |-> reg[n]]

\* The handler returns; the history of the request ends with it.
ApiRespond(t, r) ==
    /\ Respond(t, r)
    /\ existed' = [existed EXCEPT ![t] = FALSE]

ApiUnchanged ==
    /\ UNCHANGED <<fl, idx, taken, invoked, wrote, failedAt>>
    /\ UNCHANGED <<nodesLock, io, flowsLock, storeVars, retrVars, cacheVars,
                   buildVars>>

StartPut(t) ==
    /\ pc[t] = "idle"
    /\ \E n \in ApiNames, tree \in Trees :
          /\ req' = [req EXCEPT ![t] =
                 [NoReq EXCEPT !.kind = "put", !.name = n, !.body = tree]]
          /\ existed' = [existed EXCEPT ![t] = Stored(flowsTbl, n)]
    /\ pc' = [pc EXCEPT ![t] = "p_build"]
    /\ UNCHANGED <<row, resp, flows, flowsTbl>>
    /\ ApiUnchanged

\* let atom = flow.try_into_async().await.map_err(BAD_REQUEST)?
PutBuild(t) ==
    /\ pc[t] = "p_build"
    /\ IF BuildOk(req[t].body)
       THEN /\ pc' = [pc EXCEPT ![t] = "p_select"]
            /\ UNCHANGED <<resp, existed>>
       ELSE ApiRespond(t, Resp(400, "build"))
    /\ UNCHANGED <<req, row, flows, flowsTbl>>
    /\ ApiUnchanged

\* let update = fetch_optional(SELECT * FROM flows WHERE name = ?).is_some()
PutSelect(t) ==
    /\ pc[t] = "p_select"
    /\ row' = [row EXCEPT ![t] =
           [NoRow EXCEPT !.present = Stored(flowsTbl, req[t].name)]]
    /\ pc' = [pc EXCEPT ![t] = "p_write"]
    /\ UNCHANGED <<req, resp, flows, flowsTbl, existed>>
    /\ ApiUnchanged

\* if update { UPDATE } else { INSERT }, each with map_err(internal_error)?
PutWrite(t) ==
    /\ pc[t] = "p_write"
    /\ LET name == req[t].name
           json == ToJson(req[t].body)
       IN  IF row[t].present
           THEN /\ flowsTbl' = UpdateContent(flowsTbl, name, json)
                /\ pc' = [pc EXCEPT ![t] = "p_register"]
                /\ UNCHANGED <<resp, existed>>
           ELSE IF InsertOk(flowsTbl, name)
           THEN /\ flowsTbl' = InsertFlow(flowsTbl, name, json)
                /\ pc' = [pc EXCEPT ![t] = "p_register"]
                /\ UNCHANGED <<resp, existed>>
           ELSE /\ ApiRespond(t, Resp(500, "UNIQUE constraint failed"))
                /\ UNCHANGED flowsTbl
    /\ UNCHANGED <<req, row, flows>>
    /\ ApiUnchanged

\* state.flows.lock().await.insert(name, Arc::new(atom)); then the status
PutRegister(t) ==
    /\ pc[t] = "p_register"
    /\ flowsLock = NoTask
    /\ flows' = RegistryInsert(flows, req[t].name, BuildFlow(req[t].body))
    /\ ApiRespond(t, Resp(IF row[t].present THEN 204 ELSE 201, ""))
    /\ UNCHANGED <<req, row, flowsTbl>>
    /\ ApiUnchanged

StartGetFlow(t) ==
    /\ pc[t] = "idle"
    /\ \E n \in ApiNames :
          req' = [req EXCEPT ![t] =
                     [NoReq EXCEPT !.kind = "get_flow", !.name = n]]
    /\ pc' = [pc EXCEPT ![t] = "a_select"]
    /\ UNCHANGED <<row, resp, flows, flowsTbl, existed>>
    /\ ApiUnchanged

\* fetch_one(SELECT * FROM flows WHERE name = ?).await.map_err(internal_error)?
\* fetch_one gives Err(RowNotFound) when no row matches.
GetFlowSelect(t) ==
    /\ pc[t] = "a_select"
    /\ IF Stored(flowsTbl, req[t].name)
       THEN ApiRespond(t, Resp(200, flowsTbl[req[t].name]))
       ELSE ApiRespond(t, Resp(500, "RowNotFound"))
    /\ UNCHANGED <<req, row, flows, flowsTbl>>
    /\ ApiUnchanged

StartDelete(t) ==
    /\ pc[t] = "idle"
    /\ \E n \in ApiNames :
          req' = [req EXCEPT ![t] =
                     [NoReq EXCEPT !.kind = "delete", !.name = n]]
    /\ pc' = [pc EXCEPT ![t] = "d_remove"]
    /\ UNCHANGED <<row, resp, flows, flowsTbl, existed>>
    /\ ApiUnchanged

\* if state.flows.lock().await.remove(&name).is_some() { ... }
DeleteRemove(t) ==
    /\ pc[t] = "d_remove"
    /\ flowsLock = NoTask
    /\ IF req[t].name \in DOMAIN flows
       THEN /\ flows' = RegistryRemove(flows, req[t].name)
            /\ pc' = [pc EXCEPT ![t] = "d_delete"]
            /\ UNCHANGED <<resp, existed>>
       ELSE /\ ApiRespond(t, Resp(204, ""))
            /\ UNCHANGED flows
    /\ UNCHANGED <<req, row, flowsTbl>>
    /\ ApiUnchanged

\* DELETE FROM flows WHERE name = ?, then NO_CONTENT
DeleteStore(t) ==
    /\ pc[t] = "d_delete"
    /\ flowsTbl' = DeleteFlowRow(flowsTbl, req[t].name)
    /\ ApiRespond(t, Resp(204, ""))
    /\ UNCHANGED <<req, row, flows>>
    /\ ApiUnchanged

\* The request is served: the task takes the next one.
ApiFinish(t) ==
    /\ pc[t] = "done"
    /\ pc' = [pc EXCEPT ![t] = "idle"]
    /\ req' = [req EXCEPT ![t] = NoReq]
    /\ row' = [row EXCEPT ![t] = NoRow]
    /\ resp' = [resp EXCEPT ![t] = NoResp]
    /\ UNCHANGED <<flows, flowsTbl, existed>>
    /\ ApiUnchanged

InitApiIdle ==
    /\ flowsTbl = [n \in ApiNames |-> NoContent]
    /\ existed = [t \in Tasks |-> FALSE]

-----------------------------------------------------------------------------
(* One FlowBuilder and its simple() *)

MaxNodes == 3

NodeKinds == {FeedNode, WebSubNode, RetrieveNode}
NodeLists == UNION {[1..n -> NodeKinds] : n \in 1..MaxNodes}

NoFlow == [nodes |-> <<>>, outSlot |-> <<>>, output |-> NoIO,
           outKind |-> "None"]

\* builder.simple(output, uuid): a Flow, never an error.
Build ==
    /\ built = NoFlow
    /\ built' = Simple(bNodes, bOutput)
    /\ UNCHANGED <<bNodes, bOutput>>
    /\ UNCHANGED <<storeVars, flowVars, taskVars, retrVars, cacheVars,
                   apiVars>>

InitBuildIdle ==
    /\ bNodes = <<>>
    /\ bOutput = "Feed"
    /\ built = NoFlow

-----------------------------------------------------------------------------
(* Initial states *)

InitTasks ==
    /\ pc = [t \in Tasks |-> "idle"]
    /\ req = [t \in Tasks |-> NoReq]
    /\ row = [t \in Tasks |-> NoRow]
    /\ resp = [t \in Tasks |-> NoResp]
    /\ fl = [t \in Tasks |-> ""]
    /\ idx = [t \in Tasks |-> 0]
    /\ taken = [t \in Tasks |-> NoData]
    /\ invoked = [t \in Tasks |-> <<>>]
    /\ wrote = [t \in Tasks |-> {}]
    /\ failedAt = [t \in Tasks |-> 0]

InitFlows ==
    /\ flows = [n \in FlowIds |-> n]
    /\ flowsLock = NoTask
    /\ nodesLock = [f \in FlowIds |-> NoTask]
    /\ io = [f \in FlowIds |-> [s \in SlotIds(f) |-> EmptyIO(SlotKind(f, s))]]

InitRetrieveIdle ==
    /\ rpc = "off"
    /\ rIn = EmptyIO("Feed")
    /\ rOut = EmptyIO("Feed")
    /\ rOut0 = EmptyIO("Feed")
    /\ atom = <<>>
    /\ pulled = 0
    /\ streamDone = FALSE
    /\ inProgress = {}
    /\ queued = [i \in {} |-> 0]
    /\ items = <<>>
    /\ rResult = "none"
    /\ outOfOrder = FALSE

InitVerify ==
    /\ \E s1 \in BOOLEAN :
          websub = [u \in UUIDs |->
                      IF u = "u1" THEN MkRow("B", 1, s1) ELSE NoRow]
    /\ now = 0
    /\ sha1 = FALSE
    /\ InitFlows
    /\ InitTasks
    /\ InitRetrieveIdle
    /\ InitCacheIdle
    /\ InitApiIdle
    /\ InitBuildIdle

NextVerify ==
    \/ \E t \in Tasks : StartVerify(t)
    \/ \E t \in Tasks : VerifySelect(t)
    \/ \E t \in Tasks : VerifyApply(t)
    \/ \E t \in Tasks : Finish(t)
    \/ Tick

SpecVerify == InitVerify /\ [][NextVerify]_vars


Init ==
    /\ websub = [u \in UUIDs |->
                    IF u = "u1" THEN MkRow("B", 1, TRUE)
                    ELSE IF u = "u2" THEN MkRow("A", 0, TRUE)
                    ELSE IF u = "u3" THEN MkRow("C", 1, TRUE)
                    ELSE NoRow]
    /\ now = 0
    /\ sha1 \in BOOLEAN
    /\ InitFlows
    /\ InitTasks
    /\ InitRetrieveIdle
    /\ InitCacheIdle
    /\ InitApiIdle
    /\ InitBuildIdle

Next ==
    \/ \E t \in Tasks : StartGet(t)
    \/ \E t \in Tasks : GetLookup(t)
    \/ \E t \in Tasks : StartReceive(t)
    \/ \E t \in Tasks : ReceiveSelect(t)
    \/ \E t \in Tasks : ReceiveLookup(t)
    \/ \E t \in Tasks : RunLock(t)
    \/ \E t \in Tasks : RunIter(t)
    \/ \E t \in Tasks : NodeOk(t)
    \/ \E t \in Tasks : NodeErr(t)
    \/ \E t \in Tasks : Finish(t)

Spec == Init /\ [][Next]_vars

-----------------------------------------------------------------------------
(* The Retrieve node: get_content and Retrieve::run *)

\* min(atom.entries.len(), 6)
Politeness == 6

Min(a, b) == IF a < b THEN a ELSE b

Link(rel, href) == [rel |-> rel, href |-> href]
OldContent == [value |-> <<0>>, type |-> "text"]
Entry(id, links) == [id |-> id, links |-> links, content |-> OldContent]

\* The shapes an entry's links take; entry i links to page i.
NShapes == 5
EntryOfShape(i, shape) ==
    IF shape = 0 THEN Entry(i, <<Link("alternate", i)>>)
    ELSE IF shape = 1 THEN Entry(i, <<>>)
    ELSE IF shape = 2 THEN Entry(i, <<Link("self", 100 + i),
                                      Link("alternate", i)>>)
    ELSE IF shape = 3 THEN Entry(i, <<Link("self", 100 + i)>>)
    ELSE Entry(i, <<Link("alternate", i), Link("alternate", 200 + i)>>)

\* The input feeds: n entries, all with an alternate link (pattern 0) or with
\* the shapes in rotation (patterns 1..NShapes).
FeedOf(n, pattern) ==
    [i \in 1..n |->
        IF pattern = 0 THEN EntryOfShape(i, 0)
        ELSE EntryOfShape(i, (i + pattern) % NShapes)]

\* The page behind a link: elements with a class and an inner HTML.
Element(cls, inner) == [cls |-> cls, inner |-> inner]
Page(href) == <<Element("e", href), Element("x", 0), Element("e", href + 1000)>>
ContentSelector == "e"

\* html.select(selector).map(|s| s.inner_html()).collect::<String>()
RECURSIVE SelectInner(_, _)
SelectInner(page, selector) ==
    IF page = <<>> THEN <<>>
    ELSE (IF Head(page).cls = selector THEN <<Head(page).inner>> ELSE <<>>)
         \o SelectInner(Tail(page), selector)

\* entry.links().iter().find(|l| l.rel().eq("alternate"))
RECURSIVE FindAlternate(_)
FindAlternate(links) ==
    IF links = <<>> THEN <<>>
    ELSE IF Head(links).rel = "alternate" THEN <<Head(links)>>
    ELSE FindAlternate(Tail(links))

HasAlternate(e) == FindAlternate(e.links) # <<>>

NoEntry == [id |-> 0, links |-> <<>>, content |-> OldContent]
OkEntry(e) == [ok |-> TRUE, entry |-> e]
ErrEntry == [ok |-> FALSE, entry |-> NoEntry]

\* get_content after a successful fetch of the alternate link
GetContent(e, selector) ==
    LET link == FindAlternate(e.links)[1]
    IN  OkEntry([e EXCEPT !.content =
                    [value |-> SelectInner(Page(link.href), selector),
                     type |-> "html"]])

Degree_Unbounded(len) == len

\* let n = min(atom.entries.len(), 6);
Degree(len) == Min(len, Politeness)

\* FuturesOrdered::len(): futures in progress and outputs not yet yielded.
QueueLen == Cardinality(inProgress) + Cardinality(DOMAIN queued)

Yieldable_Unordered == DOMAIN queued

\* FuturesOrdered yields the output whose index is next_outgoing_index.
Yieldable == {i \in DOMAIN queued : i = Len(items) + 1}

QueuedWith(i, r) == [j \in DOMAIN queued \cup {i} |->
                        IF j = i THEN r ELSE queued[j]]
QueuedWithout(i) == [j \in DOMAIN queued \ {i} |-> queued[j]]

CollectEntries_SkipErrors(results) ==
    LET oks == SelectSeq(results, LAMBDA r : r.ok)
    IN  [ok |-> TRUE, entries |-> [i \in 1..Len(oks) |-> oks[i].entry]]

\* items.into_iter().collect::<anyhow::Result<_>>()
CollectEntries(results) ==
    IF \E i \in 1..Len(results) : ~results[i].ok
    THEN [ok |-> FALSE, entries |-> <<>>]
    ELSE [ok |-> TRUE,
          entries |-> [i \in 1..Len(results) |-> results[i].entry]]

\* let Some(Data::Feed(mut atom)) = self.input.get() else { return Err }
RetrieveStart ==
    /\ rpc = "start"
    /\ rIn' = IOGet(rIn)
    /\ IF IOGetValue(rIn).kind = "Feed"
       THEN /\ atom' = IOGetValue(rIn).v
            /\ rpc' = "stream"
            /\ UNCHANGED rResult
       ELSE /\ rpc' = "done"
            /\ rResult' = "err"
            /\ UNCHANGED atom
    /\ UNCHANGED <<rOut, rOut0, pulled, streamDone, inProgress, queued, items,
                   outOfOrder>>
    /\ UNCHANGED <<storeVars, flowVars, taskVars, extVars>>

\* Buffered::poll_next: while the queue is shorter than max, take the next
\* future off the stream and push it; an entry without an alternate link
\* completes on its first poll, without a fetch.
Pull ==
    /\ rpc = "stream"
    /\ QueueLen < Degree(Len(atom))
    /\ pulled < Len(atom)
    /\ pulled' = pulled + 1
    /\ LET i == pulled + 1
       IN  IF HasAlternate(atom[i])
           THEN /\ inProgress' = inProgress \cup {i}
                /\ UNCHANGED queued
           ELSE /\ queued' = QueuedWith(i, OkEntry(atom[i]))
                /\ UNCHANGED inProgress
    /\ UNCHANGED <<rpc, rIn, rOut, rOut0, atom, streamDone, items, rResult,
                   outOfOrder>>
    /\ UNCHANGED <<storeVars, flowVars, taskVars, extVars>>

\* Buffered::poll_next: the stream, polled for one more, returns None.
StreamEnd ==
    /\ rpc = "stream"
    /\ QueueLen < Degree(Len(atom))
    /\ pulled = Len(atom)
    /\ ~streamDone
    /\ streamDone' = TRUE
    /\ UNCHANGED <<rpc, rIn, rOut, rOut0, atom, pulled, inProgress, queued,
                   items, rResult, outOfOrder>>
    /\ UNCHANGED <<storeVars, flowVars, taskVars, extVars>>

\* reqwest::get(link.href()).await?.text().await? answers.
FetchOk(i) ==
    /\ rpc = "stream"
    /\ i \in inProgress
    /\ inProgress' = inProgress \ {i}
    /\ queued' = QueuedWith(i, GetContent(atom[i], ContentSelector))
    /\ outOfOrder' = (outOfOrder \/ \E j \in inProgress : j < i)
    /\ UNCHANGED <<rpc, rIn, rOut, rOut0, atom, pulled, streamDone, items,
                   rResult>>
    /\ UNCHANGED <<storeVars, flowVars, taskVars, extVars>>

\* reqwest::get(link.href()).await? fails.
FetchErr(i) ==
    /\ rpc = "stream"
    /\ i \in inProgress
    /\ inProgress' = inProgress \ {i}
    /\ queued' = QueuedWith(i, ErrEntry)
    /\ outOfOrder' = (outOfOrder \/ \E j \in inProgress : j < i)
    /\ UNCHANGED <<rpc, rIn, rOut, rOut0, atom, pulled, streamDone, items,
                   rResult>>
    /\ UNCHANGED <<storeVars, flowVars, taskVars, extVars>>

\* The stream yields an output and collect() pushes it.
Yield ==
    /\ rpc = "stream"
    /\ \E i \in Yieldable :
          /\ items' = Append(items, queued[i])
          /\ queued' = QueuedWithout(i)
    /\ UNCHANGED <<rpc, rIn, rOut, rOut0, atom, pulled, streamDone,
                   inProgress, rResult, outOfOrder>>
    /\ UNCHANGED <<storeVars, flowVars, taskVars, extVars>>

\* The stream ends (queue empty, stream done); then
\* atom.entries = items...collect()?; self.output.accept(atom)
Collect ==
    /\ rpc = "stream"
    /\ QueueLen = 0
    /\ streamDone
    /\ rpc' = "done"
    /\ LET c == CollectEntries(items)
           d == MkData("Feed", c.entries)
       IN  IF c.ok /\ IOAcceptOk(rOut, d)
           THEN /\ rOut' = IOAccept(rOut, d)
                /\ rResult' = "ok"
           ELSE /\ rResult' = "err"
                /\ UNCHANGED rOut
    /\ UNCHANGED <<rIn, rOut0, atom, pulled, streamDone, inProgress, queued,
                   items, outOfOrder>>
    /\ UNCHANGED <<storeVars, flowVars, taskVars, extVars>>

InitRetrieve ==
    /\ rpc = "start"
    /\ \/ rIn = EmptyIO("Feed")
       \/ \E n \in 0..MaxEntries, pattern \in 0..NShapes :
             rIn = IOAccept(EmptyIO("Feed"), MkData("Feed", FeedOf(n, pattern)))
    /\ rOut \in {EmptyIO("Feed"),
                 IOGet(IOAccept(EmptyIO("Feed"), MkData("Feed", <<>>)))}
    /\ rOut0 = rOut
    /\ atom = <<>>
    /\ pulled = 0
    /\ streamDone = FALSE
    /\ inProgress = {}
    /\ queued = [i \in {} |-> 0]
    /\ items = <<>>
    /\ rResult = "none"
    /\ outOfOrder = FALSE
    /\ websub = [u \in UUIDs |-> NoRow]
    /\ now = 0
    /\ sha1 = FALSE
    /\ InitFlows
    /\ InitTasks
    /\ InitCacheIdle
    /\ InitApiIdle
    /\ InitBuildIdle

NextRetrieve ==
    \/ RetrieveStart
    \/ Pull
    \/ StreamEnd
    \/ \E i \in 1..MaxEntries : FetchOk(i)
    \/ \E i \in 1..MaxEntries : FetchErr(i)
    \/ Yield
    \/ Collect

SpecRetrieve == InitRetrieve /\ [][NextRetrieve]_vars

-----------------------------------------------------------------------------
(* The specifications of the Cache node, the flow API and the builder *)

InitStoreIdle ==
    /\ websub = [u \in UUIDs |-> NoRow]
    /\ now = 0
    /\ sha1 = FALSE

InitCache ==
    /\ \E ttl \in 0..MaxTtl :
          /\ cache = CacheNew(ttl)
          /\ cTtl = ttl
    /\ cLock = NoTask
    /\ cRun = [t \in Tasks |-> IdleRun]
    /\ cLog = <<>>
    /\ InitStoreIdle
    /\ InitFlows
    /\ InitTasks
    /\ InitRetrieveIdle
    /\ InitApiIdle
    /\ InitBuildIdle

NextCache ==
    \/ \E t \in Tasks : CacheCall(t)
    \/ \E t \in Tasks : CacheEnter(t)
    \/ \E t \in Tasks : ChildOk(t)
    \/ \E t \in Tasks : ChildErr(t)
    \/ Tick

SpecCache == InitCache /\ [][NextCache]_vars

\* app(): the registry holds the flows the table holds.
InitApi ==
    /\ \E S \in SUBSET ApiNames :
          /\ flowsTbl = [n \in ApiNames |->
                            IF n \in S THEN ToJson(0) ELSE NoContent]
          /\ flows = [n \in S |-> BuildFlow(0)]
    /\ existed = [t \in Tasks |-> FALSE]
    /\ flowsLock = NoTask
    /\ nodesLock = [f \in FlowIds |-> NoTask]
    /\ io = [f \in FlowIds |-> [s \in SlotIds(f) |-> EmptyIO(SlotKind(f, s))]]
    /\ InitStoreIdle
    /\ InitTasks
    /\ InitRetrieveIdle
    /\ InitCacheIdle
    /\ InitBuildIdle

NextApi ==
    \/ \E t \in Tasks : StartPut(t)
    \/ \E t \in Tasks : PutBuild(t)
    \/ \E t \in Tasks : PutSelect(t)
    \/ \E t \in Tasks : PutWrite(t)
    \/ \E t \in Tasks : PutRegister(t)
    \/ \E t \in Tasks : StartGetFlow(t)
    \/ \E t \in Tasks : GetFlowSelect(t)
    \/ \E t \in Tasks : StartDelete(t)
    \/ \E t \in Tasks : DeleteRemove(t)
    \/ \E t \in Tasks : DeleteStore(t)
    \/ \E t \in Tasks : ApiFinish(t)

SpecApi == InitApi /\ [][NextApi]_vars

\* The PUT requests alone, in any order and overlap.
NextPut ==
    \/ \E t \in Tasks : StartPut(t)
    \/ \E t \in Tasks : PutBuild(t)
    \/ \E t \in Tasks : PutSelect(t)
    \/ \E t \in Tasks : PutWrite(t)
    \/ \E t \in Tasks : PutRegister(t)
    \/ \E t \in Tasks : ApiFinish(t)

SpecPut == InitApi /\ [][NextPut]_vars

InitBuild ==
    /\ bNodes \in NodeLists
    /\ bOutput \in DataKinds
    /\ built = NoFlow
    /\ InitStoreIdle
    /\ InitFlows
    /\ InitTasks
    /\ InitRetrieveIdle
    /\ InitCacheIdle
    /\ InitApiIdle

NextBuild == Build

SpecBuild == InitBuild /\ [][NextBuild]_vars

-----------------------------------------------------------------------------
(* Claims about the verification callback, under SpecVerify *)

VerifyApplies(t, mode) ==
    /\ pc[t] = "v_apply"
    /\ pc'[t] = "done"
    /\ req[t].mode = mode
    /\ websub[req[t].uuid].present

\* C2: a subscribe callback on an existing record with subscribed = false, or
\* with a topic other than the record's, is answered 400 and leaves the
\* persisted record as it was, lease_end included.
C2_RejectedSubscribeLeavesRecord ==
    [][\A t \in Tasks :
         LET rec == websub[req[t].uuid]
         IN  (/\ VerifyApplies(t, "subscribe")
              /\ (~rec.subscribed \/ req[t].topic # rec.topic))
             => (/\ resp'[t].status = 400
                 /\ websub'[req[t].uuid] = rec)]_vars

\* C3: a subscribe callback on an existing record with subscribed = true and
\* the record's topic sets lease_end to now + lease_seconds, changes nothing
\* else of the record, and is answered 200 with the challenge as body.
C3_SubscribeSetsLease ==
    [][\A t \in Tasks :
         LET rec == websub[req[t].uuid]
         IN  (/\ VerifyApplies(t, "subscribe")
              /\ rec.subscribed
              /\ req[t].topic = rec.topic)
             => (/\ websub'[req[t].uuid] =
                        [rec EXCEPT !.lease_end = now + req[t].lease]
                 /\ websub'[req[t].uuid].present
                 /\ websub'[req[t].uuid].subscribed
                 /\ resp'[t] = Resp(200, req[t].challenge))]_vars

C3_Witness ==
    \E t \in Tasks :
        /\ pc[t] = "done"
        /\ req[t].mode = "subscribe"
        /\ resp[t] = Resp(200, req[t].challenge)
        /\ now > 0
        /\ websub[req[t].uuid].present
        /\ websub[req[t].uuid].lease_end = now + req[t].lease

\* C4: an unsubscribe callback on an existing record deletes it and answers
\* 200 with the challenge exactly when subscribed = false and the topic is the
\* record's, and otherwise answers 400 and changes nothing; no step deletes a
\* record whose subscribed flag is true, and no step changes a subscribed flag.
C4_UnsubscribeDeletesOnlyUnsubscribed ==
    [][/\ \A t \in Tasks :
            LET rec == websub[req[t].uuid]
            IN  VerifyApplies(t, "unsubscribe")
                => IF ~rec.subscribed /\ req[t].topic = rec.topic
                   THEN /\ ~websub'[req[t].uuid].present
                        /\ resp'[t] = Resp(200, req[t].challenge)
                   ELSE /\ resp'[t].status = 400
                        /\ websub' = websub
       /\ \A u \in UUIDs :
            /\ (websub[u].present /\ websub[u].subscribed)
                   => websub'[u].present
            /\ (websub[u].present /\ websub'[u].present)
                   => websub'[u].subscribed = websub[u].subscribed]_vars

C4_Witness ==
    \E t \in Tasks :
        /\ pc[t] = "done"
        /\ req[t].mode = "unsubscribe"
        /\ resp[t] = Resp(200, req[t].challenge)
        /\ ~websub[req[t].uuid].present
        /\ row[t].present /\ ~row[t].subscribed


-----------------------------------------------------------------------------
(* Claims about the handlers and the flow runner, under Spec *)

EnabledAlgs ==
    {"sha256", "sha384", "sha512"} \cup (IF sha1 THEN {"sha1"} ELSE {})
HexTok(byte) == IF byte = 0 THEN "00" ELSE "01"

\* The request carries "<algo>=<hex>" with an enabled algorithm and the MAC
\* of its body under the subscription's secret.
ProperlySigned(r) ==
    /\ websub[r.uuid].present
    /\ r.header.present
    /\ r.header.ascii
    /\ \E alg \in EnabledAlgs :
          r.header.text =
              <<alg, "=",
                HexTok(Hmac(alg, websub[r.uuid].secret, r.body)[1])>>

\* The request wrote a slot or had Flow::run called.
Delivered(t) == wrote[t] # {} \/ fl[t] # ""

\* C1: a push writes the flow's WebSub slot and has run() invoked only if the
\* subscription exists and the header carries an enabled algorithm and the
\* matching MAC; a push to an existing subscription without that is answered
\* 403, with no slot written and no run.
C1_OnlyVerifiedPushesReachTheFlow ==
    \A t \in Tasks :
        req[t].kind = "receive" =>
            /\ (Delivered(t) \/ pc[t] = "r_lookup") => ProperlySigned(req[t])
            /\ (/\ pc[t] = "done"
                /\ websub[req[t].uuid].present
                /\ ~ProperlySigned(req[t]))
               => (resp[t].status = 403 /\ ~Delivered(t))

C1_Witness ==
    \E t \in Tasks :
        /\ req[t].kind = "receive"
        /\ pc[t] = "done"
        /\ resp[t].status = 200
        /\ wrote[t] # {}
        /\ invoked[t] # <<>>

\* C5: two executions of Flow::run on one flow never overlap: between taking
\* the nodes lock and reading the terminal slot, no other task is inside
\* Flow::run of the same flow.
C5_RunsOfOneFlowExclude ==
    \A t1, t2 \in Tasks :
        (t1 # t2 /\ InRun(t1) /\ InRun(t2)) => fl[t1] # fl[t2]

C5_Witness ==
    \E t1, t2 \in Tasks :
        /\ pc[t1] = "node_run"
        /\ pc[t2] = "run_lock"
        /\ fl[t1] = fl[t2]

\* C6: while a GET /flow/:name for one flow is suspended inside its run(), a
\* GET /flow/:name for another registered flow can look its flow up.
C6_OtherFlowCanBeLookedUp ==
    \A t1, t2 \in Tasks :
        (/\ req[t1].kind = "get"
         /\ pc[t1] = "node_run"
         /\ pc[t2] = "g_lookup"
         /\ req[t2].name \in DOMAIN flows
         /\ flows[req[t2].name] # fl[t1])
        => ENABLED GetLookup(t2)

\* C7: when the run() of the node at position k fails, Flow::run returns the
\* error (the handler answers 500), the execution invoked no node after k,
\* invoked k once, and did not write the terminal slot.
C7_ErrorsPropagate ==
    \A t \in Tasks :
        failedAt[t] # 0 =>
            /\ pc[t] = "done"
            /\ resp[t].status = 500
            /\ \A i \in 1..Len(invoked[t]) : invoked[t][i] <= failedAt[t]
            /\ Cardinality({i \in 1..Len(invoked[t]) :
                               invoked[t][i] = failedAt[t]}) = 1
            /\ TerminalSlot \notin wrote[t]

C7_Witness ==
    \E t \in Tasks :
        /\ failedAt[t] = 1
        /\ NNodes(fl[t]) = 2
        /\ pc[t] = "done"
        /\ resp[t].status = 500


-----------------------------------------------------------------------------
(* Claims about Retrieve::run, under SpecRetrieve *)

Alternates(e) == {j \in 1..Len(e.links) : e.links[j].rel = "alternate"}
FirstAlternate(e) ==
    e.links[CHOOSE j \in Alternates(e) : \A k \in Alternates(e) : j <= k]
Matching(page) == {j \in 1..Len(page) : page[j].cls = ContentSelector}

\* out is e with the content of its first alternate link's page: the inner
\* HTML of the matching elements, in document order; or e itself when it has
\* no alternate link.
IsEnrichmentOf(out, e) ==
    IF Alternates(e) = {} THEN out = e
    ELSE LET page == Page(FirstAlternate(e).href)
         IN  /\ out.id = e.id
             /\ out.links = e.links
             /\ out.content.type = "html"
             /\ Len(out.content.value) = Cardinality(Matching(page))
             /\ \A a, b \in 1..Len(out.content.value) :
                   a < b => \E pa, pb \in Matching(page) :
                               /\ pa < pb
                               /\ page[pa].inner = out.content.value[a]
                               /\ page[pb].inner = out.content.value[b]
             /\ \A j \in Matching(page) :
                   \E a \in 1..Len(out.content.value) :
                       out.content.value[a] = page[j].inner

\* C8: when Retrieve::run succeeds, the output feed has as many entries as
\* the input and its entry i is the enrichment of input entry i; an entry
\* without an alternate link is unchanged at its position.
C8_RetrievePreservesOrderAndCount ==
    (rpc = "done" /\ rResult = "ok") =>
        /\ rOut.state = "dirty"
        /\ Len(rOut.value.v) = Len(rIn.value.v)
        /\ \A i \in 1..Len(rIn.value.v) :
              IsEnrichmentOf(rOut.value.v[i], rIn.value.v[i])

C8_Witness ==
    /\ rpc = "done"
    /\ rResult = "ok"
    /\ outOfOrder
    /\ Len(rOut.value.v) >= 3
    /\ \E i \in 1..Len(rIn.value.v) : Alternates(rIn.value.v[i]) = {}

\* C9: the fetches in flight never number more than min(n, 6), n the number
\* of entries of the input feed.
C9_InFlightBounded ==
    rpc = "stream" =>
        /\ Cardinality(inProgress) <= Len(atom)
        /\ Cardinality(inProgress) <= 6

C9_Witness ==
    /\ rpc = "stream"
    /\ Len(atom) > 6
    /\ Cardinality(inProgress) = 6

FetchFailed ==
    \/ \E i \in DOMAIN queued : ~queued[i].ok
    \/ \E i \in 1..Len(items) : ~items[i].ok

\* C10: once a fetch has failed, the output slot is never written by the run,
\* and the run ends with an error.
C10_FailedFetchFailsRun ==
    FetchFailed =>
        /\ rOut = rOut0
        /\ rpc = "done" => rResult = "err"

C10_Witness ==
    /\ rpc = "done"
    /\ rResult = "err"
    /\ rOut0.state = "empty"
    /\ \E i \in 1..Len(items) : ~items[i].ok
    /\ \E i \in 1..Len(items) :
          items[i].ok /\ items[i].entry.content.type = "html"


-----------------------------------------------------------------------------
(* Claims about the Cache node, under SpecCache *)

\* The runs logged before run j that invoked the child and stored its value.
StoresBefore(j) == {i \in 1..(j - 1) : cLog[i].invoked /\ cLog[i].ok}
LastStoreBefore(j) ==
    CHOOSE i \in StoresBefore(j) : \A k \in StoresBefore(j) : k <= i

\* C11: a run() whose freshness check comes less than ttl after an earlier
\* run() stored the child's value does not invoke the child (the two runs
\* invoke it once) and returns the same value; a run() whose check comes ttl
\* or more after the value was last stored invokes the child again.
C11_TtlDecidesChildInvocation ==
    \A j \in 1..Len(cLog) :
        /\ \A i \in StoresBefore(j) :
              cLog[j].checked - cLog[i].stored < cTtl
                  => /\ ~cLog[j].invoked
                     /\ cLog[j].ok
                     /\ cLog[j].value = cLog[i].value
                     /\ Cardinality({k \in i..j : cLog[k].invoked}) = 1
        /\ (/\ StoresBefore(j) # {}
            /\ cLog[j].checked - cLog[LastStoreBefore(j)].stored >= cTtl)
           => cLog[j].invoked

C11_Witness ==
    /\ Len(cLog) = 3
    /\ cTtl = 2
    /\ cLog[1].invoked /\ cLog[1].ok
    /\ ~cLog[2].invoked /\ cLog[2].checked > cLog[1].stored
    /\ cLog[3].invoked /\ cLog[3].ok
    /\ cLog[3].value # cLog[1].value

ChildFails(t) ==
    /\ cRun[t].pc = "child"
    /\ cRun'[t].pc = "idle"
    /\ ~cLog'[Len(cLog')].ok

CacheTurn(t) == cRun[t].pc = "wait" /\ cRun'[t].pc # "wait"

\* C12: when the child's run() fails inside the cache, last_value and
\* inserted_at are what they were when the child was invoked, so a stored
\* entry is neither replaced nor refreshed; and while nothing has been stored
\* the cache stays empty and the next run invokes the child again.
C12_FailedChildLeavesCache ==
    [][\A t \in Tasks :
         /\ ChildFails(t)
                => /\ cache'.last_value = cRun[t].before.last_value
                   /\ cache'.inserted_at = cRun[t].before.inserted_at
         /\ (/\ CacheTurn(t)
             /\ cLog # <<>>
             /\ \A i \in 1..Len(cLog) : ~cLog[i].ok)
                => /\ cache.last_value = NoValue
                   /\ cRun'[t].pc = "child"
                   /\ cRun'[t].invoked]_vars

C12_Witness ==
    /\ Len(cLog) = 2
    /\ cLog[1].invoked /\ cLog[1].ok
    /\ cLog[2].invoked /\ ~cLog[2].ok
    /\ cLog[2].checked > cLog[1].stored
    /\ cache.last_value = cLog[1].value
    /\ cache.inserted_at = cLog[1].stored

-----------------------------------------------------------------------------
(* Claims about the flow API, under SpecPut and SpecApi *)

PutAnswers(t) ==
    /\ req[t].kind = "put"
    /\ pc[t] # "done"
    /\ pc'[t] = "done"

\* C14: a PUT whose tree builds is answered 201 when no flow of the name was
\* stored when it arrived and 204 when one was, and when it is answered the
\* store holds its serialized tree and the registry its flow; a PUT whose
\* tree fails to build is answered 400 and changes neither. For PUTs in any
\* order, overlapping ones included.
C14_PutCreatesOrUpdates ==
    [][\A t \in Tasks :
         PutAnswers(t) =>
            LET name == req[t].name
                tree == req[t].body
            IN  IF BuildOk(tree)
                THEN /\ resp'[t].status = IF existed[t] THEN 204 ELSE 201
                     /\ flowsTbl'[name] = ToJson(tree)
                     /\ name \in DOMAIN flows'
                     /\ flows'[name] = BuildFlow(tree)
                ELSE /\ resp'[t].status = 400
                     /\ flowsTbl' = flowsTbl
                     /\ flows' = flows]_vars

\* C15: GET /api/flow/:name is answered 200 with the stored content when a
\* flow of the name is stored, and 404 when none is.
C15_GetFlowAnswers ==
    [][\A t \in Tasks :
         (pc[t] = "a_select" /\ pc'[t] = "done") =>
            IF Stored(flowsTbl, req[t].name)
            THEN /\ resp'[t].status = 200
                 /\ resp'[t].body = flowsTbl[req[t].name]
            ELSE resp'[t].status = 404]_vars


-----------------------------------------------------------------------------
(* Claims about FlowBuilder::simple, under SpecBuild *)

\* producer.output_types()[i] == consumer.input_types()[i], for every
\* adjacent pair and every position i of the consumer's inputs.
TypeChain(nodes) ==
    \A k \in 1..(Len(nodes) - 1) :
        \A i \in 1..Len(nodes[k + 1].input_types) :
            /\ i <= Len(nodes[k].output_types)
            /\ nodes[k].output_types[i] = nodes[k + 1].input_types[i]

\* C16: a Flow comes out of the build only for a node list in which every
\* adjacent pair has the producer's output types equal to the consumer's
\* input types.
C16_BuildOnlyWellTyped ==
    built # NoFlow => TypeChain(built.nodes)

\* C19: in a flow built from n nodes, node k's output slot is node k+1's
\* input slot for every k < n, the last node's output slot is the terminal
\* slot, no slot has two producers, and the slots between nodes number n - 1.
C19_SlotsSharedPairwise ==
    built # NoFlow =>
        LET n == Len(built.nodes)
        IN  /\ \A k \in 1..(n - 1) :
                  /\ HasInput(built.nodes[k + 1])
                  /\ built.outSlot[k] = DefaultIn(k + 1)
            /\ built.outSlot[n] = built.output
            /\ \A j, k \in 1..n : j # k => built.outSlot[j] # built.outSlot[k]
            /\ Cardinality({built.outSlot[k] : k \in 1..(n - 1)}) = n - 1


-----------------------------------------------------------------------------
(* Claims about the slots of a flow, under Spec *)

\* The slots shared by two adjacent nodes: the outputs of all but the last.
IntermediateSlots(f) == {NodeOutput(f, k) : k \in 1..(NNodes(f) - 1)}

\* Flow::run returns Ok to its caller.
RunSucceeds(t) ==
    /\ InRun(t)
    /\ pc'[t] = "done"
    /\ resp'[t].status = 200

\* C17: when Flow::run returns Ok, every slot between two adjacent nodes of
\* the flow is empty.
C17_SlotsEmptyAfterRun ==
    [][\A t \in Tasks :
         RunSucceeds(t) =>
            \A s \in IntermediateSlots(fl[t]) :
                io'[fl[t]][s].state = "empty"]_vars

\* C18: when Flow::run returns Ok, no slot between two adjacent nodes of the
\* flow is dirty: each is empty or clean.
C18_NoDirtySlotAfterRun ==
    [][\A t \in Tasks :
         RunSucceeds(t) =>
            \A s \in IntermediateSlots(fl[t]) :
                /\ io'[fl[t]][s].state \in {"empty", "clean"}
                /\ ~IOIsDirty(io'[fl[t]][s])]_vars

C18_Witness ==
    \E t \in Tasks :
        /\ pc[t] = "done"
        /\ resp[t].status = 200
        /\ fl[t] \in FlowIds
        /\ Len(invoked[t]) = NNodes(fl[t])
        /\ \E s \in IntermediateSlots(fl[t]) : wrote[t] = {s, TerminalSlot}

\* The receiver calls accept(body) on the input slot of flow f.
ReceiveAccepts(t, f) ==
    /\ pc[t] = "r_lookup"
    /\ pc'[t] # "r_lookup"
    /\ row[t].flow \in DOMAIN flows
    /\ flows[row[t].flow] = f
    /\ WebSubInput(f) # NoIO

\* A step of Flow::run on f: is_dirty, get, accept and clear on f's slots.
RunSteps(t, f) ==
    /\ InRun(t)
    /\ fl[t] = f
    /\ <<pc'[t], idx'[t]>> # <<pc[t], idx[t]>>

\* C20: no task operates on a slot of a flow while another task is executing
\* that flow's run(); the receiver's accept(body) on the flow's input slot
\* never falls inside another task's run of the flow.
C20_SlotsAccessedUnderTheLock ==
    [][\A t \in Tasks, f \in FlowIds :
         (ReceiveAccepts(t, f) \/ RunSteps(t, f)) =>
            \A t2 \in Tasks \ {t} : ~(InRun(t2) /\ fl[t2] = f)]_vars

-----------------------------------------------------------------------------
(* Claims about repeated pushes and repeated runs, under Spec *)

\* A hub sends its next notification when the one before it was answered:
\* receive is entered while no other request is being served.
StartReceiveAfter(t) ==
    /\ \A t2 \in Tasks \ {t} : pc[t2] \in {"idle", "done"}
    /\ StartReceive(t)

\* Pushes one after another, every node's run() succeeding.
NextPush ==
    \/ \E t \in Tasks : StartReceiveAfter(t)
    \/ \E t \in Tasks : ReceiveSelect(t)
    \/ \E t \in Tasks : ReceiveLookup(t)
    \/ \E t \in Tasks : RunLock(t)
    \/ \E t \in Tasks : RunIter(t)
    \/ \E t \in Tasks : NodeOk(t)
    \/ \E t \in Tasks : Finish(t)

SpecPush == Init /\ [][NextPush]_vars

\* C21: every verified push to a subscription whose flow has a WebSub input
\* slot, arriving when the request before it has completed, has its body
\* accepted into that slot and the flow's run() invoked, and is answered 200;
\* the second and later pushes to the flow included.
C21_VerifiedPushesDelivered ==
    [][\A t \in Tasks, f \in FlowIds :
         /\ ReceiveAccepts(t, f)
                => /\ WebSubInput(f) \in wrote'[t]
                   /\ io'[f][WebSubInput(f)].value
                          = MkData("WebSub", req[t].body)
                   /\ pc'[t] = "run_lock"
         /\ (/\ req[t].kind = "receive"
             /\ fl[t] = f
             /\ InRun(t)
             /\ pc'[t] = "done")
                => resp'[t].status = 200]_vars

\* Flow::run of task t returns the error of one of its nodes.
RunFailsNow(t) ==
    /\ InRun(t)
    /\ failedAt[t] = 0
    /\ failedAt'[t] # 0

\* Some node at position 1..k of flow f is dirty: a run of f would invoke it.
DirtyUpTo(f, k) == \E j \in 1..k : NodeIsDirty(f, j)

\* C22: when Flow::run fails at node k, the flow is left with node k or a
\* node upstream of it dirty, so that the next run of the flow invokes it
\* again instead of returning none.
C22_FailedRunLeavesNodeDirty ==
    [][\A t \in Tasks :
         RunFailsNow(t) => DirtyUpTo(fl[t], failedAt[t])']_vars

-----------------------------------------------------------------------------
(* Termination of Retrieve::run, under SpecRetrieveLive *)

\* The executor polls the task whenever it can go on, and every started
\* fetch is answered: a step that stays possible is taken.
SpecRetrieveLive == SpecRetrieve /\ WF_vars(NextRetrieve)

\* run() has returned: Ok after output.accept(atom), or an error.
RetrieveReturned ==
    /\ rpc = "done"
    /\ \/ rResult = "ok" /\ rOut.state = "dirty"
       \/ rResult = "err"

\* C23: Retrieve::run returns for every input feed, one with no entries
\* included: when every started fetch completes, the collection of degree
\* min(n, 6) finishes and the run has written the output slot or returned an
\* error (and the caller then drops the guard of the flow lock).
C23_RetrieveTerminates == <>RetrieveReturned

-----------------------------------------------------------------------------
(* Claims about the registry and the flows table, under SpecCrud *)

\* The PUT and DELETE requests, in any order and overlap.
NextCrud ==
    \/ \E t \in Tasks : StartPut(t)
    \/ \E t \in Tasks : PutBuild(t)
    \/ \E t \in Tasks : PutSelect(t)
    \/ \E t \in Tasks : PutWrite(t)
    \/ \E t \in Tasks : PutRegister(t)
    \/ \E t \in Tasks : StartDelete(t)
    \/ \E t \in Tasks : DeleteRemove(t)
    \/ \E t \in Tasks : DeleteStore(t)
    \/ \E t \in Tasks : ApiFinish(t)

SpecCrud == InitApi /\ [][NextCrud]_vars

\* Every request has been answered.
AllCompleted == \A t \in Tasks : pc[t] \in {"idle", "done"}

RegistryMatchesStore ==
    \A n \in ApiNames : n \in DOMAIN flows <=> Stored(flowsTbl, n)

\* A DELETE is answered while no other request on its name is being served.
DeleteAnswersAlone(t) ==
    /\ req[t].kind = "delete"
    /\ pc[t] # "done"
    /\ pc'[t] = "done"
    /\ \A t2 \in Tasks \ {t} :
          pc[t2] \in {"idle", "done"} \/ req[t2].name # req[t].name

\* C24: whenever the PUT and DELETE requests made so far have all been
\* answered, a name is in the registry exactly when it is in the flows table;
\* and when a DELETE is answered 204 with no PUT of the name under way, the
\* name is in neither.
C24_RegistryMatchesStore ==
    [][/\ AllCompleted' => RegistryMatchesStore'
       /\ \A t \in Tasks :
            DeleteAnswersAlone(t) =>
                /\ resp'[t].status = 204
                /\ req[t].name \notin DOMAIN flows'
                /\ ~Stored(flowsTbl', req[t].name)]_vars

=============================================================================
